---- MODULE Spec2Model ----
(***************************************************************************)
(* Model of bot.py: a Telegram bot that collects media into a bundle,      *)
(* stores the bundle under a generated id, re-delivers it on /start <id>   *)
(* and schedules the delivered messages for deletion.                      *)
(*                                                                         *)
(* The application is built without concurrent_updates, so the handlers   *)
(* of two updates never interleave: each handler is one action.  A run of  *)
(* delete_messages touches no state shared with the handlers and           *)
(* APScheduler runs one instance of a job at a time, so a run is one       *)
(* action too.  Text replies are taken to be delivered; the calls whose    *)
(* failure the handlers are exposed to (media sends in start, deletes in   *)
(* delete_messages, the store write, update.message of a callback query)   *)
(* take their outcome as an input of the action.                           *)
(***************************************************************************)
EXTENDS Integers, Sequences, FiniteSets, TLC

VARIABLES user_data, collection, jobs, next_token, msg_ctr, last, last_run,
          sess, issued, discarded, nsubmit, nsteps, inflight

vars == <<user_data, collection, jobs, next_token, msg_ctr, last, last_run,
          sess, issued, discarded, nsubmit, nsteps, inflight>>

-----------------------------------------------------------------------------
(* Bounds *)

MaxSubmits == 2
\* Updates handled and job runs in one behaviour
MaxSteps == 6

\* seconds=600 of the scheduled job
PurgeSeconds == 600

-----------------------------------------------------------------------------
(* Values *)

Users == {"u1", "u2"}

\* Python's None, distinct from the string "None" that str(None) produces.
PyNone == "py:None"

Str(x) == IF x = PyNone THEN "None" ELSE x

\* The text of the confirmation marker.
ConfirmMark == "confirm-mark"

\* The uuid4 values of the model, in the order gen_id hands them out.
TokenName == <<"t1", "t2">>

\* Arguments a user can give to /start.
Params == {TokenName[i] : i \in 1..Len(TokenName)} \cup {"None", "bogus-token"}

\* An inbound message: the fields of telegram.Message the handlers read.
Msg(text, photo, video, audio, voice, document, animation, sticker, caption) ==
    [text |-> text, photo |-> photo, video |-> video, audio |-> audio,
     voice |-> voice, document |-> document, animation |-> animation,
     sticker |-> sticker, caption |-> caption]

PhotoCat   == Msg(PyNone, <<"p1-small", "p1">>, PyNone, PyNone, PyNone, PyNone, PyNone, PyNone, "cat")
\* Telegram sets document as well on an animation message.
AnimMsg    == Msg(PyNone, <<>>, PyNone, PyNone, PyNone, "g1-doc", "g1", PyNone, PyNone)
TextMsg    == Msg("hello", <<>>, PyNone, PyNone, PyNone, PyNone, PyNone, PyNone, PyNone)
ConfirmMsg == Msg(ConfirmMark, <<>>, PyNone, PyNone, PyNone, PyNone, PyNone, PyNone, PyNone)

\* The media messages users send in the model.
MediaMsgs == {PhotoCat, AnimMsg}

Inbound == MediaMsgs \cup {TextMsg, ConfirmMsg}

\* x or ""
OrEmpty(x) == IF x = PyNone THEN "" ELSE x

\* f.get(k, default) on a dict modelled as a record
Get(f, k, default) == IF k \in DOMAIN f THEN f[k] ELSE default

\* context.user_data of one user: the keys present and their values.
EmptyDict == [keys |-> {}, media_id |-> PyNone, files |-> <<>>]

\* The update handled last: whose it was, what the handler sent to the chat
\* and whether the handler ended in an exception.
Reply(u, op, args, sent, raised) ==
    [user |-> u, op |-> op, args |-> args, sent |-> sent, raised |-> raised]

Text(t) == [kind |-> "text", text |-> t]

LinkText(t, link) == [kind |-> "text", text |-> t, link |-> link]

\* https://t.me/<bot>?start=<media_id>
ShareLink(media_id) == [host |-> "t.me", start |-> Str(media_id)]

-----------------------------------------------------------------------------
(* Helper functions *)

gen_id == TokenName[next_token + 1]

\* save_data as an upsert of the whole collection: the new document replaces
\* what was stored.
save_data_replace(coll, media_id, files) ==
    <<[media_id |-> media_id, files |-> files]>>

\* collection.insert_one: no unique index, the document is appended.
save_data(coll, media_id, files) ==
    Append(coll, [media_id |-> media_id, files |-> files])

\* find_one with an empty filter: the first document, whatever its key.
find_one_any(coll, media_id, i) == IF Len(coll) >= 1 THEN 1 ELSE 0

\* A value that is a list or None, as get_data returns.
List(l) == [none |-> FALSE, list |-> l]

NoList == [none |-> TRUE, list |-> <<>>]

RECURSIVE find_one(_, _, _)
find_one(coll, media_id, i) ==
    IF i > Len(coll) THEN 0
    ELSE IF coll[i].media_id = media_id THEN i
    ELSE find_one(coll, media_id, i + 1)

get_data(coll, media_id) ==
    LET i == find_one(coll, media_id, 1)
    IN  IF i = 0 THEN NoList ELSE List(coll[i].files)

\* `is not None` in place of truth: an empty list passes.
TruthyNotNone(x) == ~x.none

\* Python truth of a value that is None or a list (`if files`, `if not files`).
Truthy(x) == ~x.none /\ x.list # <<>>

\* A classifier that files a text message as a document.
ClassifyText(m) ==
    IF m.photo # <<>> THEN
        [type |-> "photo", file_id |-> m.photo[Len(m.photo)], caption |-> OrEmpty(m.caption)]
    ELSE IF m.video # PyNone THEN
        [type |-> "video", file_id |-> m.video, caption |-> OrEmpty(m.caption)]
    ELSE IF m.audio # PyNone THEN [type |-> "audio", file_id |-> m.audio]
    ELSE IF m.voice # PyNone THEN [type |-> "voice", file_id |-> m.voice]
    ELSE IF m.document # PyNone THEN [type |-> "document", file_id |-> m.document]
    ELSE IF m.animation # PyNone THEN [type |-> "animation", file_id |-> m.animation]
    ELSE IF m.sticker # PyNone THEN [type |-> "sticker", file_id |-> m.sticker]
    ELSE [type |-> "document", file_id |-> m.text]

\* The media_entry of handle_media; PyNone when the input is unsupported.
Classify(m) ==
    IF m.photo # <<>> THEN
        [type |-> "photo", file_id |-> m.photo[Len(m.photo)], caption |-> OrEmpty(m.caption)]
    ELSE IF m.video # PyNone THEN
        [type |-> "video", file_id |-> m.video, caption |-> OrEmpty(m.caption)]
    ELSE IF m.audio # PyNone THEN [type |-> "audio", file_id |-> m.audio]
    ELSE IF m.voice # PyNone THEN [type |-> "voice", file_id |-> m.voice]
    ELSE IF m.document # PyNone THEN [type |-> "document", file_id |-> m.document]
    ELSE IF m.animation # PyNone THEN [type |-> "animation", file_id |-> m.animation]
    ELSE IF m.sticker # PyNone THEN [type |-> "sticker", file_id |-> m.sticker]
    ELSE [type |-> PyNone]

Supported(m) == Classify(m).type # PyNone

-----------------------------------------------------------------------------
(* State                                                                   *)
(*   user_data   context.user_data of each user                            *)
(*   collection  the documents of the MongoDB collection, in insert order  *)
(*   jobs        the jobs added to the scheduler                           *)
(*   next_token  how many ids gen_id has produced                          *)
(*   msg_ctr     the id of the last message sent to each chat              *)
(*   last        the update handled last and what its handler sent         *)
(*   last_run    the bot calls of the last run of delete_messages          *)
(*   inflight    the handlers suspended at an await                        *)
(* History kept for the properties, never read by the handlers:            *)
(*   sess        per owner, the session as the sequence of operations      *)
(*               defines it: begun by upload, ended by the marker          *)
(*   issued      token, owner and submitted messages of every commit of a  *)
(*               session                                                   *)
(*   discarded   the sessions replaced by a later upload before a commit   *)
(*   nsubmit, nsteps  the counters the bounds limit                        *)

-----------------------------------------------------------------------------
(* Initial state *)

Init ==
    /\ user_data = [u \in Users |-> EmptyDict]
    /\ collection = <<>>
    /\ jobs = <<>>
    /\ next_token = 0
    /\ msg_ctr = [u \in Users |-> 0]
    /\ last = Reply("nobody", "none", <<>>, <<>>, FALSE)
    /\ last_run = [job |-> 0, calls |-> <<>>]
    /\ sess = [u \in Users |-> [state |-> "IDLE", token |-> PyNone, items |-> <<>>]]
    /\ issued = {}
    /\ discarded = {}
    /\ nsubmit = 0
    /\ nsteps = 0
    /\ inflight = <<>>

-----------------------------------------------------------------------------
(* Handlers *)

\* upload that keeps a list of files already in user_data (setdefault).
upload_keep_files(u, via) ==
    /\ next_token < Len(TokenName)
    /\ next_token' = next_token + 1
    /\ LET media_id == TokenName[next_token + 1]
       IN  IF via = "callback"
           THEN /\ last' = Reply(u, "upload", <<via>>, <<>>, TRUE)
                /\ UNCHANGED <<user_data, sess, discarded>>
           ELSE /\ last' = Reply(u, "upload", <<via>>, <<Text("send-media")>>, FALSE)
                /\ user_data' = [user_data EXCEPT ![u] =
                                  [keys |-> @.keys \cup {"media_id", "files"},
                                   media_id |-> media_id, files |-> @.files]]
                /\ discarded' = IF sess[u].state = "COLLECTING"
                                 THEN discarded \cup {[token |-> sess[u].token, owner |-> u,
                                                       items |-> sess[u].items]}
                                 ELSE discarded
                /\ sess' = [sess EXCEPT ![u] =
                              [state |-> "COLLECTING", token |-> media_id, items |-> <<>>]]
    /\ UNCHANGED <<collection, jobs, msg_ctr, issued, nsubmit, last_run>>

\* upload: registered for the /upload command and for the callback query of
\* the "Start Uploading" button, whose update has no message.
upload(u, via) ==
    /\ next_token < Len(TokenName)
    /\ next_token' = next_token + 1
    /\ LET media_id == gen_id
       IN  IF via = "callback"
           THEN \* update.message is None: reply_text raises AttributeError
                /\ last' = Reply(u, "upload", <<via>>, <<>>, TRUE)
                /\ UNCHANGED <<user_data, sess, discarded>>
           ELSE /\ last' = Reply(u, "upload", <<via>>, <<Text("send-media")>>, FALSE)
                /\ user_data' = [user_data EXCEPT ![u] =
                                  [keys |-> @.keys \cup {"media_id", "files"},
                                   media_id |-> media_id, files |-> <<>>]]
                /\ discarded' = IF sess[u].state = "COLLECTING"
                                 THEN discarded \cup {[token |-> sess[u].token, owner |-> u,
                                                       items |-> sess[u].items]}
                                 ELSE discarded
                /\ sess' = [sess EXCEPT ![u] =
                              [state |-> "COLLECTING", token |-> media_id, items |-> <<>>]]
    /\ UNCHANGED <<collection, jobs, msg_ctr, issued, nsubmit, last_run>>

\* The marker branch that pops media_id and leaves the list of files in
\* user_data.
confirm_keep_files(u, store_ok) ==
    LET media_id == IF "media_id" \in user_data[u].keys THEN user_data[u].media_id ELSE PyNone
        files    == IF "files" \in user_data[u].keys THEN user_data[u].files ELSE <<>>
        link     == ShareLink(media_id)
    IN  IF Truthy(List(files))
        THEN IF store_ok
             THEN /\ collection' = save_data(collection, media_id, files)
                  /\ user_data' = [user_data EXCEPT ![u].keys = @ \ {"media_id"}]
                  /\ last' = Reply(u, "confirm", <<>>, <<LinkText("upload-complete", link)>>, FALSE)
                  /\ issued' = IF sess[u].state = "COLLECTING"
                                THEN issued \cup {[token |-> link.start, owner |-> u,
                                                   items |-> sess[u].items]}
                                ELSE issued
                  /\ sess' = [sess EXCEPT ![u].state = "IDLE"]
             ELSE \* insert_one raises after the link was sent; clear() is skipped
                  /\ last' = Reply(u, "confirm", <<>>, <<LinkText("upload-complete", link)>>, TRUE)
                  /\ UNCHANGED <<collection, user_data, issued, sess>>
        ELSE /\ store_ok
             /\ last' = Reply(u, "confirm", <<>>, <<Text("no-media-uploaded")>>, FALSE)
             /\ user_data' = [user_data EXCEPT ![u].keys = @ \ {"media_id"}]
             /\ sess' = [sess EXCEPT ![u].state = "IDLE"]
             /\ UNCHANGED <<collection, issued>>

\* handle_media, the branch of the confirmation marker.
confirm(u, store_ok) ==
    LET media_id == IF "media_id" \in user_data[u].keys THEN user_data[u].media_id ELSE PyNone
        files    == IF "files" \in user_data[u].keys THEN user_data[u].files ELSE <<>>
        link     == ShareLink(media_id)
    IN  IF Truthy(List(files))
        THEN IF store_ok
             THEN /\ collection' = save_data(collection, media_id, files)
                  /\ user_data' = [user_data EXCEPT ![u] = EmptyDict]
                  /\ last' = Reply(u, "confirm", <<>>, <<LinkText("upload-complete", link)>>, FALSE)
                  /\ issued' = IF sess[u].state = "COLLECTING"
                                THEN issued \cup {[token |-> link.start, owner |-> u,
                                                   items |-> sess[u].items]}
                                ELSE issued
                  /\ sess' = [sess EXCEPT ![u].state = "IDLE"]
             ELSE \* insert_one raises after the link was sent; clear() is skipped
                  /\ last' = Reply(u, "confirm", <<>>, <<LinkText("upload-complete", link)>>, TRUE)
                  /\ UNCHANGED <<collection, user_data, issued, sess>>
        ELSE /\ store_ok
             /\ last' = Reply(u, "confirm", <<>>, <<Text("no-media-uploaded")>>, FALSE)
             /\ user_data' = [user_data EXCEPT ![u] = EmptyDict]
             /\ sess' = [sess EXCEPT ![u].state = "IDLE"]
             /\ UNCHANGED <<collection, issued>>

\* The branch of every other message with the list kept in one place for
\* all users (bot_data).
submit_shared(u, m) ==
    LET files       == IF "files" \in user_data[u].keys THEN user_data[u].files ELSE <<>>
        media_entry == Classify(m)
        appended    == IF media_entry.type # PyNone THEN Append(files, media_entry) ELSE files
    IN  /\ Supported(m) => nsubmit < MaxSubmits
        /\ nsubmit' = IF Supported(m) THEN nsubmit + 1 ELSE nsubmit
        /\ last' = Reply(u, "message", <<m>>,
              <<Text(IF media_entry.type # PyNone THEN "media-saved" ELSE "unsupported")>>,
              FALSE)
        /\ user_data' = [v \in Users |->
                          [user_data[v] EXCEPT !.keys = @ \cup {"files"}, !.files = appended]]
        /\ sess' = IF Supported(m) /\ sess[u].state = "COLLECTING"
                    THEN [sess EXCEPT ![u].items = Append(@, m)]
                    ELSE sess
        /\ UNCHANGED <<collection, issued>>

\* handle_media, the branch of every other message.
submit(u, m) ==
    LET files       == IF "files" \in user_data[u].keys THEN user_data[u].files ELSE <<>>
        media_entry == Classify(m)
        appended    == IF media_entry.type # PyNone THEN Append(files, media_entry) ELSE files
    IN  /\ Supported(m) => nsubmit < MaxSubmits
        /\ nsubmit' = IF Supported(m) THEN nsubmit + 1 ELSE nsubmit
        /\ last' = Reply(u, "message", <<m>>,
              <<Text(IF media_entry.type # PyNone THEN "media-saved" ELSE "unsupported")>>,
              FALSE)
        /\ user_data' = [user_data EXCEPT ![u].keys = @ \cup {"files"}, ![u].files = appended]
        /\ sess' = IF Supported(m) /\ sess[u].state = "COLLECTING"
                    THEN [sess EXCEPT ![u].items = Append(@, m)]
                    ELSE sess
        /\ UNCHANGED <<collection, issued>>

handle_media(u, m, store_ok) ==
    /\ IF m.text = ConfirmMark THEN confirm(u, store_ok) ELSE store_ok /\ submit(u, m)
    /\ IF m.text = ConfirmMark THEN nsubmit' = nsubmit ELSE TRUE
    /\ UNCHANGED <<jobs, next_token, msg_ctr, discarded, last_run>>

\* A send that leaves the caption out of reply_photo.
SendNoCaption(f, message_id) ==
    IF f.type \in {"photo", "video"} THEN
        [kind |-> f.type, file_id |-> f.file_id, caption |-> "", message_id |-> message_id]
    ELSE IF f.type \in {"audio", "voice", "document", "animation", "sticker"} THEN
        [kind |-> f.type, file_id |-> f.file_id, message_id |-> message_id]
    ELSE [kind |-> PyNone]

\* One media send of start: the reply_* call chosen by f["type"], and the
\* message it returns.
Send(f, message_id) ==
    IF f.type = "photo" THEN
        [kind |-> "photo", file_id |-> f.file_id, caption |-> Get(f, "caption", ""),
         message_id |-> message_id]
    ELSE IF f.type = "video" THEN
        [kind |-> "video", file_id |-> f.file_id, caption |-> Get(f, "caption", ""),
         message_id |-> message_id]
    ELSE IF f.type \in {"audio", "voice", "document", "animation", "sticker"} THEN
        [kind |-> f.type, file_id |-> f.file_id, message_id |-> message_id]
    ELSE [kind |-> PyNone]

\* The for loop of start from index i on: sent is what reached the chat,
\* sent_msgs the ids collected; the send numbered fail_at raises.
RECURSIVE SendAll(_, _, _, _, _, _)
SendAll(files, i, ctr, fail_at, sent, sent_msgs) ==
    IF i > Len(files) THEN [sent |-> sent, sent_msgs |-> sent_msgs, raised |-> FALSE]
    ELSE IF i = fail_at THEN [sent |-> sent, sent_msgs |-> sent_msgs, raised |-> TRUE]
    ELSE LET m == Send(files[i], ctr + 1)
         IN  IF m.kind # PyNone
             THEN SendAll(files, i + 1, ctr + 1, fail_at,
                          Append(sent, m), Append(sent_msgs, m.message_id))
             ELSE SendAll(files, i + 1, ctr, fail_at, sent, sent_msgs)

Note(message_id) == [kind |-> "text", text |-> "auto-delete-note", message_id |-> message_id]

\* add_job called before the id of the notice is appended to sent_msgs.
add_job_before_note(js, chat_id, msg_ids, media_id) ==
    Append(js, [trigger |-> "interval", seconds |-> PurgeSeconds,
                chat_id |-> chat_id, msg_ids |-> SubSeq(msg_ids, 1, Len(msg_ids) - 1),
                media_id |-> media_id, runs |-> 0, notes |-> 0])

\* scheduler.add_job(delete_messages, 'interval', seconds=600, args=[...])
add_job(js, chat_id, msg_ids, media_id) ==
    Append(js, [trigger |-> "interval", seconds |-> PurgeSeconds,
                chat_id |-> chat_id, msg_ids |-> msg_ids, media_id |-> media_id,
                runs |-> 0, notes |-> 0])

\* start, without a usable argument: the welcome text.
welcome(u, args) ==
    /\ last' = Reply(u, "start", args, <<Text("welcome")>>, FALSE)
    /\ UNCHANGED <<jobs, msg_ctr>>

\* start with an argument: look the bundle up and deliver it.
redeem(u, args, fail_at) ==
    LET media_id == args[1]
        files    == get_data(collection, media_id)
    IN  IF ~Truthy(files)
        THEN /\ fail_at = 0
             /\ last' = Reply(u, "start", args, <<Text("no-media-found")>>, FALSE)
             /\ UNCHANGED <<jobs, msg_ctr>>
        ELSE LET r == SendAll(files.list, 1, msg_ctr[u], fail_at, <<>>, <<>>)
                 n == Len(r.sent_msgs)
             IN  /\ fail_at \in 0..(Len(files.list) + 1)
                 /\ IF r.raised \/ fail_at = Len(files.list) + 1
                    THEN \* a reply_* call raised: the handler ends there
                         /\ last' = Reply(u, "start", args, r.sent, TRUE)
                         /\ msg_ctr' = [msg_ctr EXCEPT ![u] = @ + n]
                         /\ UNCHANGED jobs
                    ELSE LET note == Note(msg_ctr[u] + n + 1)
                             sent_msgs == Append(r.sent_msgs, note.message_id)
                         IN  /\ last' = Reply(u, "start", args, Append(r.sent, note), FALSE)
                             /\ msg_ctr' = [msg_ctr EXCEPT ![u] = @ + n + 1]
                             /\ jobs' = add_job(jobs, u, sent_msgs, media_id)

\* start that resets the user's session before it answers
\* (context.user_data.clear()).
start_clears(u, args, fail_at) ==
    /\ LET params == IF args # <<>> THEN args[1] ELSE PyNone
       IN  IF params = PyNone \/ params = "None"
           THEN fail_at = 0 /\ welcome(u, args)
           ELSE redeem(u, args, fail_at)
    /\ user_data' = [user_data EXCEPT ![u] = EmptyDict]
    /\ UNCHANGED <<collection, next_token, sess, issued, discarded, nsubmit,
                   last_run>>

start(u, args, fail_at) ==
    /\ LET params == IF args # <<>> THEN args[1] ELSE PyNone
       IN  IF params = PyNone \/ params = "None"
           THEN fail_at = 0 /\ welcome(u, args)
           ELSE redeem(u, args, fail_at)
    /\ UNCHANGED <<user_data, collection, next_token, sess, issued, discarded, nsubmit,
                   last_run>>

-----------------------------------------------------------------------------
(* The scheduled job *)

\* delete_messages without the try/except: the first failing delete ends the
\* run.
RECURSIVE delete_messages_abort(_, _, _, _, _, _)
delete_messages_abort(chat_id, msg_ids, media_id, fails, i, done) ==
    IF i <= Len(msg_ids)
    THEN IF i \in fails
         THEN Append(done, [op |-> "delete_message", chat_id |-> chat_id,
                            message_id |-> msg_ids[i], ok |-> FALSE])
         ELSE delete_messages_abort(chat_id, msg_ids, media_id, fails, i + 1,
                  Append(done, [op |-> "delete_message", chat_id |-> chat_id,
                                message_id |-> msg_ids[i], ok |-> TRUE]))
    ELSE Append(done, [op |-> "send_message", chat_id |-> chat_id,
                       text |-> "deleted-restore", url |-> ShareLink(media_id)])

\* The body of delete_messages from index i on: what it asked of the bot.
\* fails are the positions whose delete_message raises.
RECURSIVE delete_messages(_, _, _, _, _, _)
delete_messages(chat_id, msg_ids, media_id, fails, i, done) ==
    IF i <= Len(msg_ids)
    THEN delete_messages(chat_id, msg_ids, media_id, fails, i + 1,
             Append(done, [op |-> "delete_message", chat_id |-> chat_id,
                           message_id |-> msg_ids[i], ok |-> i \notin fails]))
    ELSE Append(done, [op |-> "send_message", chat_id |-> chat_id,
                       text |-> "deleted-restore", url |-> ShareLink(media_id)])

Notifications(run) == Cardinality({k \in 1..Len(run) : run[k].op = "send_message"})

\* Jobs registered under id=media_id: a run is the run of every job of the
\* token.
run_job_by_token(j, fails) ==
    /\ j \in 1..Len(jobs)
    /\ jobs[j].trigger = "interval" \/ jobs[j].runs = 0
    /\ fails \subseteq 1..Len(jobs[j].msg_ids)
    /\ LET run == delete_messages(jobs[j].chat_id, jobs[j].msg_ids, jobs[j].media_id,
                                  fails, 1, <<>>)
       IN  /\ jobs' = [i \in 1..Len(jobs) |->
                        IF jobs[i].media_id = jobs[j].media_id
                        THEN [jobs[i] EXCEPT !.runs = @ + 1, !.notes = @ + Notifications(run)]
                        ELSE jobs[i]]
           /\ last_run' = [job |-> j, calls |-> run]
    /\ UNCHANGED <<user_data, collection, next_token, msg_ctr, last,
                   sess, issued, discarded, nsubmit>>

\* The scheduler runs job j: an interval job stays scheduled after its run.
run_job(j, fails) ==
    /\ j \in 1..Len(jobs)
    /\ jobs[j].trigger = "interval" \/ jobs[j].runs = 0
    /\ fails \subseteq 1..Len(jobs[j].msg_ids)
    /\ LET run == delete_messages(jobs[j].chat_id, jobs[j].msg_ids, jobs[j].media_id,
                                  fails, 1, <<>>)
       IN  /\ jobs' = [jobs EXCEPT ![j].runs = @ + 1,
                                   ![j].notes = @ + Notifications(run)]
           /\ last_run' = [job |-> j, calls |-> run]
    /\ UNCHANGED <<user_data, collection, next_token, msg_ctr, last,
                   sess, issued, discarded, nsubmit>>

-----------------------------------------------------------------------------
(* The handlers of the session, cut at their await                         *)
(* Each of upload and handle_media awaits one reply_text.  The part before *)
(* the await runs when the handler is called and leaves a frame in         *)
(* inflight; the part after it runs when the frame is resumed.             *)

\* A coroutine suspended at its await, with the locals it reads afterwards.
Frame(handler, u, media_id, files, text) ==
    [handler |-> handler, user |-> u, media_id |-> media_id, files |-> files, text |-> text]

Remove(s, k) == SubSeq(s, 1, k - 1) \o SubSeq(s, k + 1, Len(s))

\* Updates processed concurrently (concurrent_updates(True)): a handler is
\* called whatever is in flight.
ProcessConcurrently == TRUE

\* The Application is built without concurrent_updates and the handlers
\* block: an update is processed when the handler of the one before it has
\* returned.
ProcessOneByOne == inflight = <<>>

\* upload up to the await of reply_text.
upload_call(u, via) ==
    /\ next_token < Len(TokenName)
    /\ next_token' = next_token + 1
    /\ LET media_id == gen_id
       IN  IF via = "callback"
           THEN \* update.message is None: raises before anything is awaited
                /\ last' = Reply(u, "upload", <<via>>, <<>>, TRUE)
                /\ UNCHANGED inflight
           ELSE /\ inflight' = Append(inflight, Frame("upload", u, media_id, <<>>, "send-media"))
                /\ UNCHANGED last
    /\ UNCHANGED <<user_data, sess, discarded, collection, jobs, msg_ctr, issued, nsubmit,
                   last_run>>

\* upload after the await: the two assignments to user_data.
upload_resume(k) ==
    LET f == inflight[k]
        u == f.user
    IN  /\ f.handler = "upload"
        /\ inflight' = Remove(inflight, k)
        /\ last' = Reply(u, "upload", <<"command">>, <<Text(f.text)>>, FALSE)
        /\ user_data' = [user_data EXCEPT ![u] =
                          [keys |-> @.keys \cup {"media_id", "files"},
                           media_id |-> f.media_id, files |-> <<>>]]
        /\ discarded' = IF sess[u].state = "COLLECTING"
                         THEN discarded \cup {[token |-> sess[u].token, owner |-> u,
                                               items |-> sess[u].items]}
                         ELSE discarded
        /\ sess' = [sess EXCEPT ![u] =
                      [state |-> "COLLECTING", token |-> f.media_id, items |-> <<>>]]
        /\ UNCHANGED <<collection, jobs, next_token, msg_ctr, issued, nsubmit, nsteps,
                       last_run>>

\* handle_media up to its await: media_id and files are read, and a media
\* entry is appended to the list object that user_data['files'] holds, if it
\* holds one.
handle_media_call(u, m) ==
    LET media_id    == IF "media_id" \in user_data[u].keys THEN user_data[u].media_id ELSE PyNone
        files       == IF "files" \in user_data[u].keys THEN user_data[u].files ELSE <<>>
        media_entry == Classify(m)
    IN  /\ IF m.text = ConfirmMark
           THEN /\ inflight' = Append(inflight,
                       IF Truthy(List(files))
                       THEN Frame("confirm", u, media_id, files, "upload-complete")
                       ELSE Frame("confirm-empty", u, media_id, files, "no-media-uploaded"))
                /\ UNCHANGED <<user_data, sess, nsubmit>>
           ELSE IF media_entry.type # PyNone
           THEN /\ nsubmit < MaxSubmits
                /\ nsubmit' = nsubmit + 1
                /\ inflight' = Append(inflight,
                       Frame("submit", u, media_id, Append(files, media_entry), "media-saved"))
                /\ user_data' = IF "files" \in user_data[u].keys
                                 THEN [user_data EXCEPT ![u].files = Append(files, media_entry)]
                                 ELSE user_data
                /\ sess' = IF sess[u].state = "COLLECTING"
                            THEN [sess EXCEPT ![u].items = Append(@, m)]
                            ELSE sess
           ELSE /\ inflight' = Append(inflight, Frame("submit", u, media_id, files, "unsupported"))
                /\ UNCHANGED <<user_data, sess, nsubmit>>
        /\ UNCHANGED <<collection, jobs, next_token, msg_ctr, last, issued, discarded, last_run>>

\* handle_media after its await: save_data and clear() for the marker, the
\* assignment of the local list to user_data['files'] for the rest.
handle_media_resume(k, store_ok) ==
    LET f == inflight[k]
        u == f.user
        own == sess[u].state = "COLLECTING" /\ sess[u].token = f.media_id
    IN  /\ f.handler \in {"confirm", "confirm-empty", "submit"}
        /\ inflight' = Remove(inflight, k)
        /\ IF f.handler = "confirm"
           THEN IF store_ok
                THEN /\ collection' = save_data(collection, f.media_id, f.files)
                     /\ user_data' = [user_data EXCEPT ![u] = EmptyDict]
                     /\ last' = Reply(u, "confirm", <<>>,
                                      <<LinkText(f.text, ShareLink(f.media_id))>>, FALSE)
                     /\ issued' = IF own
                                   THEN issued \cup {[token |-> f.media_id, owner |-> u,
                                                      items |-> sess[u].items]}
                                   ELSE issued
                     /\ sess' = IF own THEN [sess EXCEPT ![u].state = "IDLE"] ELSE sess
                ELSE /\ last' = Reply(u, "confirm", <<>>,
                                      <<LinkText(f.text, ShareLink(f.media_id))>>, TRUE)
                     /\ UNCHANGED <<collection, user_data, issued, sess>>
           ELSE IF f.handler = "confirm-empty"
           THEN /\ store_ok
                /\ last' = Reply(u, "confirm", <<>>, <<Text(f.text)>>, FALSE)
                /\ user_data' = [user_data EXCEPT ![u] = EmptyDict]
                /\ sess' = IF own THEN [sess EXCEPT ![u].state = "IDLE"] ELSE sess
                /\ UNCHANGED <<collection, issued>>
           ELSE /\ store_ok
                /\ last' = Reply(u, "message", <<>>, <<Text(f.text)>>, FALSE)
                /\ user_data' = [user_data EXCEPT ![u].keys = @ \cup {"files"},
                                                  ![u].files = f.files]
                /\ UNCHANGED <<collection, issued, sess>>
        /\ UNCHANGED <<jobs, next_token, msg_ctr, discarded, nsubmit, nsteps, last_run>>

-----------------------------------------------------------------------------
(* Specification *)

\* One more update or job run, within the length of behaviour explored.
Step == nsteps < MaxSteps /\ nsteps' = nsteps + 1

Upload ==
    \E u \in Users, via \in {"command", "callback"} :
        Step /\ upload(u, via) /\ UNCHANGED inflight

HandleMedia ==
    \E u \in Users, m \in Inbound, store_ok \in BOOLEAN :
        Step /\ handle_media(u, m, store_ok) /\ UNCHANGED inflight

Start ==
    \E u \in Users, args \in {<<>>} \cup {<<p>> : p \in Params},
       fail_at \in 0..(MaxSubmits + 1) : Step /\ start(u, args, fail_at) /\ UNCHANGED inflight

RunJob ==
    \E j \in 1..Len(jobs), fails \in SUBSET (1..(MaxSubmits + 1)) :
        Step /\ run_job(j, fails) /\ UNCHANGED inflight

Next == Upload \/ HandleMedia \/ Start \/ RunJob

Spec == Init /\ [][Next]_vars

\* The same updates with the handlers of the session cut at their await.
CallUpload ==
    \E u \in Users, via \in {"command", "callback"} :
        Step /\ ProcessOneByOne /\ upload_call(u, via)

ResumeUpload == \E k \in 1..Len(inflight) : upload_resume(k)

CallHandleMedia ==
    \E u \in Users, m \in Inbound : Step /\ ProcessOneByOne /\ handle_media_call(u, m)

ResumeHandleMedia ==
    \E k \in 1..Len(inflight), store_ok \in BOOLEAN : handle_media_resume(k, store_ok)

NextAwait == CallUpload \/ ResumeUpload \/ CallHandleMedia \/ ResumeHandleMedia

SpecAwait == Init /\ [][NextAwait]_vars

-----------------------------------------------------------------------------
(* Properties *)

\* An attachment as the spec describes it: category, content reference and,
\* for photo and video, caption.
Attachment(category, ref, caption) ==
    [category |-> category, content_reference |-> ref,
     caption |-> IF category \in {"photo", "video"} THEN caption ELSE ""]

\* The attachment a submitted message was classified as.
Submitted(m) ==
    LET e == Classify(m) IN Attachment(e.type, e.file_id, OrEmpty(m.caption))

\* The attachment a message delivered to a chat shows.
Delivered(d) ==
    Attachment(d.kind, d.file_id, IF "caption" \in DOMAIN d THEN d.caption ELSE "")

Files(u) == IF "files" \in user_data[u].keys THEN user_data[u].files ELSE <<>>

\* C1: when /start <T> runs to its end for a token T that the commit of a
\* session handed out, the messages delivered are the attachments submitted
\* in that session, one message each, in the order of submission, with the
\* same category, content reference and caption, followed by the notice.
C1_RoundTrip ==
    (last.op = "start" /\ ~last.raised /\ last.args # <<>>) =>
        \A b \in issued :
            b.token = last.args[1] =>
                /\ b.items # <<>>
                /\ Len(last.sent) = Len(b.items) + 1
                /\ \A k \in 1..Len(b.items) : Delivered(last.sent[k]) = Submitted(b.items[k])
                /\ last.sent[Len(last.sent)].text = "auto-delete-note"

\* A bundle of two different attachments, one of them captioned, redeemed by
\* a user who is not its owner.
C1_Witness ==
    /\ last.op = "start" /\ ~last.raised /\ last.args # <<>>
    /\ \E b \in issued :
          /\ b.token = last.args[1]
          /\ b.owner # last.user
          /\ Len(b.items) = 2
          /\ b.items[1] # b.items[2]
          /\ b.items[2] = PhotoCat

\* C2: every scheduled purge job runs at most once and sends at most one
\* restoration notification over the whole execution.
C2_PurgeOnce ==
    \A j \in 1..Len(jobs) : jobs[j].runs <= 1 /\ jobs[j].notes <= 1

C4_IgnoredWithoutSession ==
    [][\A u \in Users :
         sess[u].state = "IDLE" =>
             /\ \A m \in MediaMsgs :
                   handle_media(u, m, TRUE) => user_data'[u] = user_data[u]
             /\ handle_media(u, ConfirmMsg, TRUE) => collection' = collection]_vars

\* C5: every stored bundle has at least one attachment, and a confirmation
\* marker that finds no attachments writes nothing, shows no link and answers
\* that nothing was uploaded.
C5_NoEmptyBundle ==
    /\ [](\A i \in 1..Len(collection) : Len(collection[i].files) > 0)
    /\ [][\A u \in Users, ok \in BOOLEAN :
            (Files(u) = <<>> /\ handle_media(u, ConfirmMsg, ok)) =>
                /\ collection' = collection
                /\ last'.sent = <<Text("no-media-uploaded")>>]_vars

\* An empty commit of a begun session, answered with "nothing uploaded",
\* beside a store that holds a bundle.
C5_Witness ==
    /\ last.op = "confirm"
    /\ last.sent = <<Text("no-media-uploaded")>>
    /\ sess[last.user].token # PyNone
    /\ Len(collection) > 0

\* No document of the store carries the token p.
NeverCommitted(p) == \A i \in 1..Len(collection) : Str(collection[i].media_id) # p

C7_SecondUploadDiscards ==
    \A i \in 1..Len(collection) :
        /\ \A d \in discarded : collection[i].media_id # d.token
        /\ \A b \in issued :
              b.token = collection[i].media_id =>
                  collection[i].files = [k \in 1..Len(b.items) |-> Classify(b.items[k])]

\* An owner whose first session held an attachment began a second one and
\* committed that.
C7_Witness ==
    \E d \in discarded, b \in issued :
        /\ d.owner = b.owner
        /\ d.items # <<>>
        /\ d.token # b.token
        /\ \E i \in 1..Len(collection) : collection[i].media_id = b.token

\* The inbound messages that are neither media nor the confirmation marker.
UnsupportedMsgs == {TextMsg}

\* C8: an unsupported message in a session in progress leaves the owner's
\* token and attachment list as they were, the session still in progress.
C8_UnsupportedNoChange ==
    [][\A u \in Users, m \in UnsupportedMsgs :
         (sess[u].state = "COLLECTING" /\ handle_media(u, m, TRUE)) =>
             /\ user_data'[u] = user_data[u]
             /\ "media_id" \in user_data'[u].keys
             /\ sess'[u] = sess[u]]_vars

\* An unsupported message answered in a session that holds an attachment.
C8_Witness ==
    /\ last.op = "message"
    /\ last.sent = <<Text("unsupported")>>
    /\ sess[last.user].state = "COLLECTING"
    /\ Files(last.user) # <<>>

\* C9: the store holds at most one bundle per key.
C9_WriteOnce ==
    \A i, j \in 1..Len(collection) :
        i # j => collection[i].media_id # collection[j].media_id

\* C10: once get_data returns a bundle for a token, every later state
\* returns the same bundle for it.
C10_Immutable ==
    [][\A p \in Params :
         Truthy(get_data(collection, p)) =>
             get_data(collection', p) = get_data(collection, p)]_vars

\* A bundle that was redeemed and is still in the store after a later commit.
C10_Witness ==
    /\ Len(collection) = 2
    /\ Len(jobs) > 0
    /\ collection[1].media_id = jobs[1].media_id
    /\ get_data(collection, jobs[1].media_id) = List(collection[1].files)

\* The tokens gen_id hands out.
Tokens == {TokenName[i] : i \in 1..Len(TokenName)}

\* C11: an owner who was shown the "upload complete" link of a session token
\* can retrieve a bundle for that token; a commit whose store write fails
\* hands out no link.
C11_LinkImpliesBundle ==
    (last.op = "confirm" /\ last.sent # <<>> /\ "link" \in DOMAIN last.sent[1]
        /\ last.sent[1].link.start \in Tokens) =>
        Truthy(get_data(collection, last.sent[1].link.start))

\* C12: every message a redemption delivered is covered by a purge job of
\* the chat it was delivered to, whether or not a later send failed.
C12_DeliveredIsScheduled ==
    last.op = "start" =>
        \A k \in 1..Len(last.sent) :
            "message_id" \in DOMAIN last.sent[k] =>
                \E j \in 1..Len(jobs) :
                    /\ jobs[j].chat_id = last.user
                    /\ \E i \in 1..Len(jobs[j].msg_ids) :
                          jobs[j].msg_ids[i] = last.sent[k].message_id

\* C13: upload succeeds through the command and through the button: after
\* it the owner holds the fresh token and an empty list of files.
C13_UploadAlwaysBegins ==
    [][\A u \in Users, via \in {"command", "callback"} :
         upload(u, via) =>
             /\ {"media_id", "files"} \subseteq user_data'[u].keys
             /\ user_data'[u].media_id = gen_id
             /\ user_data'[u].files = <<>>
             /\ ~last'.raised]_vars

C15_OwnerIsolation ==
    [][/\ \A v \in Users :
            (user_data'[v] # user_data[v] \/ sess'[v] # sess[v]) =>
                \/ \E via \in {"command", "callback"} : upload(v, via)
                \/ \E m \in Inbound, ok \in BOOLEAN : handle_media(v, m, ok)
       /\ collection' # collection =>
            \E u \in Users :
                /\ handle_media(u, ConfirmMsg, TRUE)
                /\ collection' = Append(collection, collection'[Len(collection')])
                /\ collection'[Len(collection')].files = Files(u)]_vars

\* One owner committed while another owner's session, holding a different
\* attachment, was in progress.
C15_Witness ==
    /\ last.op = "confirm" /\ ~last.raised
    /\ Len(collection) > 0
    /\ \E v \in Users \ {last.user} :
          /\ sess[v].state = "COLLECTING"
          /\ Files(v) # <<>>
          /\ Files(v) # collection[Len(collection)].files

\* C16: a /start <T> in chat D that delivers the bundle of T to its end adds
\* exactly one job, of 600 seconds, for chat D and token T, whose msg_ids
\* are the ids of the messages it delivered: one per attachment in bundle
\* order, then the notice.
C16_OneJobPerRedemption ==
    [][\A u \in Users, p \in Params :
         (Truthy(get_data(collection, p)) /\ start(u, <<p>>, 0)) =>
             LET files == get_data(collection, p).list
                 sent  == last'.sent
                 job   == jobs'[Len(jobs')]
             IN  /\ jobs' = Append(jobs, job)
                 /\ job.seconds = 600
                 /\ job.chat_id = u
                 /\ job.media_id = p
                 /\ Len(sent) = Len(files) + 1
                 /\ \A k \in 1..Len(files) : sent[k].file_id = files[k].file_id
                 /\ sent[Len(sent)].text = "auto-delete-note"
                 /\ job.msg_ids = [k \in 1..Len(sent) |-> sent[k].message_id]
                 /\ \A k \in 1..Len(sent) : sent[k].message_id = msg_ctr[u] + k]_vars

\* The job of a redemption that delivered two attachments and the notice.
C16_Witness ==
    /\ last.op = "start" /\ ~last.raised
    /\ Len(jobs) > 0
    /\ jobs[Len(jobs)].runs = 0
    /\ jobs[Len(jobs)].chat_id = last.user
    /\ Len(jobs[Len(jobs)].msg_ids) = 3
    /\ Len(last.sent) = 3

\* C17: a marker handled to its end, with a bundle written or with nothing
\* to commit, leaves the owner's user_data empty, and a marker repeated right
\* after it answers that nothing was uploaded and writes no bundle.
C17_CommitEndsSession ==
    /\ [][\A u \in Users :
            handle_media(u, ConfirmMsg, TRUE) =>
                /\ user_data'[u] = EmptyDict
                /\ sess'[u].state = "IDLE"]_vars
    /\ [][\A u \in Users, ok \in BOOLEAN :
            (last.op = "confirm" /\ last.user = u /\ ~last.raised
                /\ handle_media(u, ConfirmMsg, ok)) =>
                /\ collection' = collection
                /\ last'.sent = <<Text("no-media-uploaded")>>]_vars

\* The marker, repeated right after a commit that wrote a bundle, answered
\* with "nothing uploaded".
C17_Witness ==
    /\ last.op = "confirm"
    /\ last.sent = <<Text("no-media-uploaded")>>
    /\ Len(collection) = 1
    /\ sess[last.user].state = "IDLE"
    /\ \E b \in issued : b.owner = last.user /\ b.token = sess[last.user].token
    /\ nsteps = 4

\* C18: every document of the store is keyed by a token that gen_id produced
\* for an upload of the owner who committed it, never by an absent key, and
\* the link a commit returned redeems that bundle.
C18_KeyedBySessionToken ==
    /\ \A i \in 1..Len(collection) :
          /\ collection[i].media_id \in Tokens
          /\ \E b \in issued : b.token = collection[i].media_id
    /\ (last.op = "confirm" /\ ~last.raised /\ last.sent # <<>>
           /\ "link" \in DOMAIN last.sent[1]) =>
          /\ last.sent[1].link.start # Str(PyNone)
          /\ Truthy(get_data(collection, last.sent[1].link.start))

\* The message ids a job deletes.
Ids(job) == {job.msg_ids[k] : k \in 1..Len(job.msg_ids)}

\* C19: every redemption adds a job of its own and leaves the jobs before it
\* as they were; two jobs of one chat share no message id; the run of a job
\* changes no other job and asks for the deletion of its own messages only.
C19_IndependentJobs ==
    /\ [](\A i, j \in 1..Len(jobs) :
             (i # j /\ jobs[i].chat_id = jobs[j].chat_id) => Ids(jobs[i]) \cap Ids(jobs[j]) = {})
    /\ [][/\ Len(jobs') \in {Len(jobs), Len(jobs) + 1}
          /\ Len(jobs') = Len(jobs) + 1 => SubSeq(jobs', 1, Len(jobs)) = jobs
          /\ (Len(jobs') = Len(jobs) /\ jobs' # jobs) =>
                LET j == last_run'.job
                IN  /\ j \in 1..Len(jobs)
                    /\ \A i \in 1..Len(jobs) : i # j => jobs'[i] = jobs[i]
                    /\ \A c \in 1..Len(last_run'.calls) :
                          last_run'.calls[c].op = "delete_message" =>
                              /\ last_run'.calls[c].chat_id = jobs[j].chat_id
                              /\ last_run'.calls[c].message_id \in Ids(jobs[j])]_vars

\* One token redeemed twice into one chat; the job of one redemption ran and
\* the job of the other has not.
C19_Witness ==
    /\ Len(jobs) = 2
    /\ jobs[1].media_id = jobs[2].media_id
    /\ jobs[1].chat_id = jobs[2].chat_id
    /\ last_run.job = 1
    /\ jobs[1].runs = 1
    /\ jobs[2].runs = 0

\* C20: a step that changes the store, the user_data or the session of any
\* owner is not a /start, whatever its argument and outcome; and the list of
\* jobs grows only by the job of a redemption that ran to its end.
C20_RedeemReadsOnly ==
    [][/\ (collection' # collection \/ user_data' # user_data \/ sess' # sess
              \/ issued' # issued \/ discarded' # discarded) =>
             \A u \in Users, args \in {<<>>} \cup {<<p>> : p \in Params},
                fail_at \in 0..(MaxSubmits + 1) : ~start(u, args, fail_at)
       /\ Len(jobs') > Len(jobs) =>
             /\ last'.op = "start" /\ ~last'.raised
             /\ Truthy(get_data(collection, last'.args[1]))
             /\ jobs' = Append(jobs, jobs'[Len(jobs')])]_vars

\* A bundle redeemed by a user whose own session, holding an attachment, is
\* in progress.
C20_Witness ==
    /\ last.op = "start" /\ ~last.raised /\ last.args # <<>>
    /\ Len(jobs) > 0
    /\ jobs[Len(jobs)].chat_id = last.user
    /\ jobs[Len(jobs)].media_id = last.args[1]
    /\ sess[last.user].state = "COLLECTING"
    /\ Files(last.user) # <<>>

====
